---- MODULE Spec2Model ----
(***************************************************************************)
(* Model of the OneRoom Health Canvas plugin                               *)
(* (src/orh_canvas_plugin/protocols/my_protocol.py).                       *)
(*                                                                         *)
(* A Protocol object is constructed with an event and a secrets mapping.   *)
(* compute() normalizes the appointment of the event, builds a RoomEvent   *)
(* record, POSTs it to the webhook and returns the effects for the host.   *)
(*                                                                         *)
(* Python values are modelled as tagged records: [t |-> "null"] is None,   *)
(* [t |-> "str", v |-> s] a string, [t |-> "int", v |-> n] an integer,     *)
(* [t |-> "bool", v |-> b] a boolean, [t |-> "dict", v |-> f] a dict or an *)
(* attribute-bearing object (f a function from key/attribute names to      *)
(* values) and [t |-> "list", v |-> s] a list.                             *)
(***************************************************************************)
EXTENDS Integers, Sequences, FiniteSets, TLC

VARIABLES
    event,      \* self.event: type, target (id, instance), context; and the Appointment table
    secrets,    \* self.secrets
    clock,      \* the wall clock read by datetime.now(), in days since ClockEpoch
    pc,         \* position of the current compute() call
    runs,       \* number of compute() calls started on this object
    effects,    \* the list returned by the last finished compute() call
    request,    \* the request _send_webhook prepared: [url, headers, data]
    posts,      \* the requests.post calls issued by the current compute() call
    sleeps,     \* the time.sleep delays waited by the current compute() call
    responses,  \* the outcomes of the requests.post calls of the current compute() call
    attempts,   \* _send_webhook's local `attempts`
    backoff,    \* _send_webhook's local `backoff`
    sendResult, \* how the current _send_webhook call ended: "none", "returned", "raised"
    prevPosts,  \* the requests.post calls issued by the previous compute() call
    appointments, \* the rows Appointment.objects.filter(id=target.id) returns
    faults      \* the faults the environment raises during a compute() call

vars == <<event, secrets, clock, pc, runs, effects, request, posts, sleeps, responses,
          attempts, backoff, sendResult, prevPosts, appointments, faults>>

(***************************************************************************)
(* Bounds of the model.                                                    *)
(***************************************************************************)
MaxRuns == 2
MaxClock == 1

(***************************************************************************)
(* Python values.                                                          *)
(***************************************************************************)
Null == [t |-> "null"]
S(x) == [t |-> "str", v |-> x]
N(x) == [t |-> "int", v |-> x]
B(x) == [t |-> "bool", v |-> x]
D(f) == [t |-> "dict", v |-> f]
L(s) == [t |-> "list", v |-> s]
EmptyDict == D([k \in {} |-> Null])

\* Python truth value of x (`if x`, `x or y`, `not x`).
Truthy(x) ==
    CASE x.t = "null" -> FALSE
      [] x.t = "str"  -> x.v # ""
      [] x.t = "int"  -> x.v # 0
      [] x.t = "bool" -> x.v
      [] x.t = "dict" -> DOMAIN x.v # {}
      [] x.t = "list" -> Len(x.v) # 0
      [] OTHER        -> TRUE

\* Python `a or b`.
Or(a, b) == IF Truthy(a) THEN a ELSE b

\* Two-digit, zero-padded decimal (the %m, %d, %H, %M, %S fields).
Pad2(n) == IF n < 10 THEN "0" \o ToString(n) ELSE ToString(n)

\* A datetime.date and a datetime.datetime (timezone-aware, UTC).
Date(y, mo, d) == [t |-> "date", y |-> y, mo |-> mo, d |-> d]
DateTime(y, mo, d, h, mi, s) ==
    [t |-> "datetime", y |-> y, mo |-> mo, d |-> d, h |-> h, mi |-> mi, s |-> s]

\* The text of the date part, YYYY-MM-DD.
DateText(x) == ToString(x.y) \o "-" \o Pad2(x.mo) \o "-" \o Pad2(x.d)

\* The text of the time part, HH:MM:SS.
TimeText(x) == Pad2(x.h) \o ":" \o Pad2(x.mi) \o ":" \o Pad2(x.s)

\* Python str(x) on the values of the model.
Str(x) ==
    CASE x.t = "null"     -> S("None")
      [] x.t = "str"      -> x
      [] x.t = "int"      -> S(ToString(x.v))
      [] x.t = "bool"     -> S(IF x.v THEN "True" ELSE "False")
      [] x.t = "date"     -> S(DateText(x))
      [] x.t = "datetime" -> S(DateText(x) \o " " \o TimeText(x) \o "+00:00")
      [] OTHER            -> S("<object>")

\* d.get(k) / getattr(o, k, None), and the forms with a default.
Get(d, k) == IF k \in DOMAIN d.v THEN d.v[k] ELSE Null
GetDefault(d, k, default) == IF k \in DOMAIN d.v THEN d.v[k] ELSE default
HasAttr(o, k) == o.t = "dict" /\ k \in DOMAIN o.v

\* str(o.k) if getattr(o, k, None) else None
StrIfTruthy(o, k) == IF Truthy(Get(o, k)) THEN Str(Get(o, k)) ELSE Null

(***************************************************************************)
(* Dates and times: datetime.fromisoformat, strftime, timedelta.           *)
(***************************************************************************)
\* The datetimes whose text forms the model parses; any other text is unparseable.
KnownDateTimes ==
    {DateTime(2024, 1, 1, 10, 0, 0), DateTime(2024, 1, 1, 10, 45, 0),
     DateTime(2024, 1, 31, 23, 45, 0), DateTime(2024, 2, 28, 23, 30, 0),
     DateTime(2024, 12, 31, 23, 59, 0)}

\* dt.strftime('%Y-%m-%dT%H:%M:%S.000Z')
Strftime(dt) == S(DateText(dt) \o "T" \o TimeText(dt) \o ".000Z")

\* The texts s for which datetime.fromisoformat(s.replace('Z', '+00:00')) is dt.
IsoForms(dt) ==
    {Str(dt).v, Strftime(dt).v, DateText(dt) \o "T" \o TimeText(dt) \o "Z"}

\* datetime.fromisoformat(s.replace('Z', '+00:00')); Null stands for ValueError.
FromIsoFormat(s) ==
    IF s.t = "str" /\ \E dt \in KnownDateTimes : s.v \in IsoForms(dt)
    THEN CHOOSE dt \in KnownDateTimes : s.v \in IsoForms(dt)
    ELSE Null

IsLeap(y) == (y % 4 = 0 /\ y % 100 # 0) \/ y % 400 = 0
DaysInMonth(y, mo) ==
    IF mo = 2 THEN (IF IsLeap(y) THEN 29 ELSE 28)
    ELSE IF mo \in {4, 6, 9, 11} THEN 30 ELSE 31

\* dt + timedelta(days=n), for n >= 0
RECURSIVE AddDays(_, _)
AddDays(dt, n) ==
    IF n = 0 THEN dt
    ELSE IF dt.d < DaysInMonth(dt.y, dt.mo) THEN AddDays([dt EXCEPT !.d = @ + 1], n - 1)
    ELSE IF dt.mo < 12 THEN AddDays([dt EXCEPT !.d = 1, !.mo = @ + 1], n - 1)
    ELSE AddDays([dt EXCEPT !.d = 1, !.mo = 1, !.y = @ + 1], n - 1)

\* Mutant of AddMinutes: the minutes wrap around midnight without moving the date.
AddMinutesSameDay(dt, n) ==
    LET total == dt.h * 60 + dt.mi + n
    IN  [dt EXCEPT !.h = (total \div 60) % 24, !.mi = total % 60]

\* dt + timedelta(minutes=n), for n >= 0
AddMinutes(dt, n) ==
    LET total == dt.h * 60 + dt.mi + n
    IN  AddDays([dt EXCEPT !.h = (total \div 60) % 24, !.mi = total % 60],
                total \div 1440)

\* The start_time, end_time and duration_minutes of appointment_data.
NormalizedTimes(appt) ==
    LET start0   == StrIfTruthy(appt, "start_time")
        end0     == StrIfTruthy(appt, "end_time")
        duration == Get(appt, "duration_minutes")
        start1   == IF Truthy(start0) /\ FromIsoFormat(start0) # Null
                    THEN Strftime(FromIsoFormat(start0))
                    ELSE start0
        end1     == IF ~Truthy(end0) /\ Truthy(start1) /\ Truthy(duration)
                    THEN IF FromIsoFormat(start1) # Null /\ duration.t = "int"
                         THEN Strftime(AddMinutes(FromIsoFormat(start1), duration.v))
                         ELSE end0
                    ELSE IF Truthy(end0) /\ FromIsoFormat(end0) # Null
                         THEN Strftime(FromIsoFormat(end0))
                         ELSE end0
    IN  [start_time |-> start1, end_time |-> end1, duration_minutes |-> duration]

\* The name `datetime` is bound in compute() when line 361 reads it. The imports at
\* lines 274, 283 and 294 make it a local name of compute(), bound only once one of
\* them has run: line 274 runs when start_time is truthy, line 294 when start_time is
\* not and end_time is. When neither is, line 361 raises UnboundLocalError.
DatetimeImported(appt) ==
    Truthy(StrIfTruthy(appt, "start_time")) \/ Truthy(StrIfTruthy(appt, "end_time"))

\* datetime.now().date(): one clock tick is one day.
Today(now) == Date(2024, 6, 14 + now)

\* datetime.now().isoformat()
NowIso(now) == S(DateText(Today(now)) \o "T09:00:00.000000")

\* The dates whose YYYY-MM-DD text the model parses; any other text is unparseable.
KnownDates == {Date(1990, 6, 15)}

\* datetime.strptime(s, '%Y-%m-%d').date(); Null stands for ValueError.
Strptime(s) ==
    IF \E d \in KnownDates : s.v = DateText(d)
    THEN CHOOSE d \in KnownDates : s.v = DateText(d)
    ELSE Null

\* Mutant of CalculateAge: the difference of the years, whether or not the birthday
\* of the current year has come.
CalculateAgeByYear(date_of_birth, today) ==
    LET dob == IF date_of_birth.t = "str" THEN Strptime(date_of_birth) ELSE date_of_birth
    IN  IF ~Truthy(date_of_birth) THEN Null
        ELSE IF dob.t = "date" THEN N(today.y - dob.y)
        ELSE Null

\* Protocol._calculate_age
CalculateAge(date_of_birth, today) ==
    LET dob == IF date_of_birth.t = "str" THEN Strptime(date_of_birth) ELSE date_of_birth
    IN  IF ~Truthy(date_of_birth) THEN Null
        ELSE IF dob.t = "date"
        THEN LET before == today.mo < dob.mo \/ (today.mo = dob.mo /\ today.d < dob.d)
             IN  N(today.y - dob.y - (IF before THEN 1 ELSE 0))
        ELSE Null

(***************************************************************************)
(* compute(): extraction of the appointment, patient, provider and         *)
(* participants.                                                           *)
(***************************************************************************)
\* The appointment compute() works on: target.instance, else the first row queried.
ResolveAppointment(ev, rows) ==
    LET target == Get(ev, "target")
    IN  IF HasAttr(target, "instance") /\ Truthy(Get(target, "instance"))
        THEN Get(target, "instance")
        ELSE IF Truthy(rows) THEN rows.v[1] ELSE Null

\* Mutant of AppointmentType: an appointment_type that yields nothing falls through
\* to the camelCase appointmentType.
AppointmentTypeFallingThrough(appt) ==
    LET none == [code |-> Null, display |-> Null, system |-> Null]
        OfCoding(c0) == [code |-> Get(c0, "code"), display |-> Get(c0, "display"),
                         system |-> Get(c0, "system")]
        appt_type  == Get(appt, "appointment_type")
        appt_type2 == Get(appt, "appointmentType")
    IN  IF Truthy(appt_type)
           /\ (HasAttr(appt_type, "code") \/ HasAttr(appt_type, "display")
               \/ HasAttr(appt_type, "system"))
        THEN OfCoding(appt_type)
        ELSE IF Truthy(appt_type) /\ HasAttr(appt_type, "coding")
                /\ Truthy(Get(appt_type, "coding"))
        THEN OfCoding(Get(appt_type, "coding").v[1])
        ELSE IF Truthy(appt_type2) /\ Truthy(Get(appt_type2, "coding"))
        THEN OfCoding(Get(appt_type2, "coding").v[1])
        ELSE none

\* The code/display/system of the appointment type.
AppointmentType(appt) ==
    LET none == [code |-> Null, display |-> Null, system |-> Null]
        OfCoding(c0) == [code |-> Get(c0, "code"), display |-> Get(c0, "display"),
                         system |-> Get(c0, "system")]
    IN  IF HasAttr(appt, "appointment_type") /\ Truthy(Get(appt, "appointment_type"))
        THEN LET appt_type == Get(appt, "appointment_type")
             IN  IF HasAttr(appt_type, "code") \/ HasAttr(appt_type, "display")
                    \/ HasAttr(appt_type, "system")
                 THEN OfCoding(appt_type)
                 ELSE IF HasAttr(appt_type, "coding") /\ Truthy(Get(appt_type, "coding"))
                 THEN OfCoding(Get(appt_type, "coding").v[1])
                 ELSE none
        ELSE IF HasAttr(appt, "appointmentType") /\ Truthy(Get(appt, "appointmentType"))
        THEN LET coding == Get(Get(appt, "appointmentType"), "coding")
             IN  IF Truthy(coding) THEN OfCoding(coding.v[1]) ELSE none
        ELSE none

\* str.lower() and str.upper(), on the type texts of the model.
Lower(s) ==
    CASE s.v = "TEST-OneRoomHealth" -> S("test-oneroomhealth")
      [] s.v = "TEST-ORH"           -> S("test-orh")
      [] s.v = "Office Visit"       -> S("office visit")
      [] s.v = "None"               -> S("none")
      [] OTHER                      -> s
Upper(s) ==
    CASE s.v = "TEST-OneRoomHealth" -> S("TEST-ONEROOMHEALTH")
      [] s.v = "test-orh"           -> S("TEST-ORH")
      [] s.v = "Office Visit"       -> S("OFFICE VISIT")
      [] s.v = "visit"              -> S("VISIT")
      [] s.v = "None"               -> S("NONE")
      [] OTHER                      -> s

\* The match rule: the value of is_test_orh_appointment after line 136.
MatchRule(appt) ==
    LET appt_type == AppointmentType(appt)
    IN  \/ Lower(Str(appt_type.display)) = S("test-oneroomhealth")
        \/ Upper(Str(appt_type.code)) = S("TEST-ORH")
        \/ Upper(Str(appt_type.system)) = S("TEST-ORH")
        \/ Get(appt, "note_type_id") = N(82)

\* Mutant of IsTestOrhAppointment: the gate keeps the result of the match rule.
IsTestOrhAppointmentAsMatched(matched) == matched

\* The value of is_test_orh_appointment the gate of line 173 tests: line 172 sets it
\* whatever the match rule found.
IsTestOrhAppointment(matched) == TRUE

\* Protocol._get_location_name, for a location that is a string or has a name.
GetLocationName(appt) ==
    IF ~HasAttr(appt, "location") \/ ~Truthy(Get(appt, "location")) THEN Null
    ELSE LET location == Get(appt, "location")
         IN  IF location.t = "str" THEN location
             ELSE IF HasAttr(location, "name") /\ Truthy(Get(location, "name"))
             THEN Str(Get(location, "name"))
             ELSE IF HasAttr(location, "display") /\ Truthy(Get(location, "display"))
             THEN Str(Get(location, "display"))
             ELSE IF HasAttr(location, "text") /\ Truthy(Get(location, "text"))
             THEN Str(Get(location, "text"))
             ELSE Null

\* patient_data
PatientData(appt, today) ==
    IF HasAttr(appt, "patient") /\ Truthy(Get(appt, "patient"))
    THEN LET patient == Get(appt, "patient")
         IN  D([id            |-> IF HasAttr(patient, "id") THEN Str(Get(patient, "id")) ELSE Null,
                dbid          |-> Get(patient, "dbid"),
                first_name    |-> Get(patient, "first_name"),
                last_name     |-> Get(patient, "last_name"),
                date_of_birth |-> StrIfTruthy(patient, "date_of_birth"),
                gender        |-> Get(patient, "sex"),
                age           |-> IF Truthy(Get(patient, "date_of_birth"))
                                  THEN CalculateAge(Get(patient, "date_of_birth"), today)
                                  ELSE Null,
                created_at    |-> StrIfTruthy(patient, "created"),
                modified_at   |-> StrIfTruthy(patient, "modified")])
    ELSE EmptyDict

\* provider_data
ProviderData(appt) ==
    IF HasAttr(appt, "provider") /\ Truthy(Get(appt, "provider"))
    THEN LET provider == Get(appt, "provider")
         IN  D([id          |-> IF HasAttr(provider, "id") THEN Str(Get(provider, "id")) ELSE Null,
                dbid        |-> Get(provider, "dbid"),
                name        |-> IF HasAttr(provider, "first_name") /\ HasAttr(provider, "last_name")
                                THEN S(Str(Get(provider, "first_name")).v \o " "
                                       \o Str(Get(provider, "last_name")).v)
                                ELSE Null,
                first_name  |-> Get(provider, "first_name"),
                last_name   |-> Get(provider, "last_name"),
                created_at  |-> StrIfTruthy(provider, "created"),
                modified_at |-> StrIfTruthy(provider, "modified")])
    ELSE EmptyDict

\* str(reference).split('/')[-1], on the references of the model.
LastSegment(reference) ==
    CASE reference.v = "Practitioner/d1" -> S("d1")
      [] reference.v = "Practitioner/d2" -> S("d2")
      [] reference.v = "Patient/p1"      -> S("p1")
      [] reference.v = "Location/r4"     -> S("r4")
      [] OTHER                           -> Str(reference)

\* Mutant of ScheduleUser: the provider is recognised by the whole reference, not by
\* the id after its last '/'.
ScheduleUserWholeReference(p, provider_data) ==
    LET actor      == IF p.t = "dict" THEN Get(p, "actor") ELSE Null
        ref0       == IF Truthy(actor) THEN Get(actor, "reference") ELSE Null
        actor_type == IF Truthy(actor) THEN Get(actor, "type") ELSE Null
        reference  == IF ref0 = Null /\ p.t = "dict" THEN Get(p, "reference") ELSE ref0
        ref_id     == IF Truthy(reference) THEN LastSegment(reference) ELSE Null
        provider_plain_id == Get(provider_data, "id")
        is_provider == Truthy(provider_plain_id) /\ Truthy(ref_id)
                       /\ Str(reference) = Str(provider_plain_id)
    IN  D([Id    |-> ref_id,
           name  |-> IF is_provider THEN Get(provider_data, "name") ELSE S(""),
           role  |-> IF is_provider THEN S("provider")
                     ELSE IF Truthy(actor_type) THEN Str(actor_type) ELSE S("participant"),
           email |-> S("")])

\* One row of schedule_user_data, for participant p.
ScheduleUser(p, provider_data) ==
    LET actor      == IF p.t = "dict" THEN Get(p, "actor") ELSE Null
        ref0       == IF Truthy(actor) THEN Get(actor, "reference") ELSE Null
        actor_type == IF Truthy(actor) THEN Get(actor, "type") ELSE Null
        reference  == IF ref0 = Null /\ p.t = "dict" THEN Get(p, "reference") ELSE ref0
        ref_id     == IF Truthy(reference) THEN LastSegment(reference) ELSE Null
        provider_plain_id == Get(provider_data, "id")
        is_provider == Truthy(provider_plain_id) /\ Truthy(ref_id)
                       /\ Str(ref_id) = Str(provider_plain_id)
    IN  D([Id    |-> ref_id,
           name  |-> IF is_provider THEN Get(provider_data, "name") ELSE S(""),
           role  |-> IF is_provider THEN S("provider")
                     ELSE IF Truthy(actor_type) THEN Str(actor_type) ELSE S("participant"),
           email |-> S("")])

\* schedule_user_data
ScheduleUserData(appt, provider_data) ==
    LET participants ==
            IF HasAttr(appt, "participants") /\ Get(appt, "participants") # Null
            THEN Get(appt, "participants")
            ELSE IF HasAttr(appt, "participant") /\ Get(appt, "participant") # Null
            THEN Get(appt, "participant")
            ELSE L(<<>>)
    IN  L([i \in 1..Len(participants.v) |-> ScheduleUser(participants.v[i], provider_data)])

\* The index of the first TRUE of a sequence of booleans, 0 when there is none: the
\* element a `for ...: if ...: break` loop stops at.
FirstIndex(bs) ==
    IF \E i \in 1..Len(bs) : bs[i]
    THEN CHOOSE i \in 1..Len(bs) : bs[i] /\ \A j \in 1..(i - 1) : ~bs[j]
    ELSE 0

\* note_id: the SDK field, else the valueId of the FHIR note-id extension.
NoteIdUrl == "http://schemas.canvasmedical.com/fhir/extensions/note-id"
NoteId(appt) ==
    LET note_id    == Get(appt, "note_id")
        extensions == Or(Get(appt, "extension"), Get(appt, "extensions"))
        IsNoteExt(ext) == Get(ext, "url") = S(NoteIdUrl)
        i == IF extensions.t = "list"
             THEN FirstIndex([j \in 1..Len(extensions.v) |-> IsNoteExt(extensions.v[j])])
             ELSE 0
    IN  IF Truthy(note_id) THEN note_id
        ELSE IF i # 0 /\ Truthy(Get(extensions.v[i], "valueId"))
        THEN Get(extensions.v[i], "valueId")
        ELSE note_id

\* meeting_link: the SDK field, else the address of a contained Endpoint.
MeetingLink(appt) ==
    LET meeting_link == Get(appt, "meeting_link")
        contained    == Get(appt, "contained")
        IsEndpoint(res) == Get(res, "resourceType") \in {S("Endpoint"), S("endpoint")}
        i == IF contained.t = "list"
             THEN FirstIndex([j \in 1..Len(contained.v) |-> IsEndpoint(contained.v[j])])
             ELSE 0
    IN  IF Truthy(meeting_link) THEN meeting_link
        ELSE IF i # 0 /\ Truthy(Get(contained.v[i], "address"))
        THEN Get(contained.v[i], "address")
        ELSE meeting_link

\* appointment_data["external_identifiers"]: [] when the accessor raises.
ExternalIdentifiers(appt) ==
    LET rows == Get(appt, "external_identifiers")
        Row(x) == D([id              |-> Str(Get(x, "id")),
                     system          |-> Get(x, "system"),
                     value           |-> Get(x, "value"),
                     use             |-> Get(x, "use"),
                     identifier_type |-> Get(x, "identifier_type"),
                     issued_date     |-> StrIfTruthy(x, "issued_date"),
                     expiration_date |-> StrIfTruthy(x, "expiration_date")])
    IN  IF rows.t = "list" THEN L([i \in 1..Len(rows.v) |-> Row(rows.v[i])]) ELSE L(<<>>)

\* appointment_data["metadata"]: [] when the accessor raises.
Metadata(appt) ==
    LET rows == Get(appt, "metadata")
        Row(x) == D([id |-> Str(Get(x, "id")), key |-> Get(x, "key"),
                     value |-> Get(x, "value")])
    IN  IF rows.t = "list" THEN L([i \in 1..Len(rows.v) |-> Row(rows.v[i])]) ELSE L(<<>>)

\* appointment_data
AppointmentData(ev, appt) ==
    LET times     == NormalizedTimes(appt)
        appt_type == AppointmentType(appt)
    IN  D([id                   |-> Get(Get(ev, "target"), "id"),
           dbid                 |-> Get(appt, "dbid"),
           start_time           |-> times.start_time,
           end_time             |-> times.end_time,
           duration_minutes     |-> times.duration_minutes,
           status               |-> Get(appt, "status"),
           comment              |-> Get(appt, "comment"),
           note_id              |-> NoteId(appt),
           note_type_id         |-> Get(appt, "note_type_id"),
           appointment_type     |-> D(appt_type),
           location             |-> GetLocationName(appt),
           meeting_link         |-> MeetingLink(appt),
           telehealth_instructions_sent |-> Get(appt, "telehealth_instructions_sent"),
           entered_in_error     |-> StrIfTruthy(appt, "entered_in_error"),
           description          |-> Get(appt, "description"),
           created_at           |-> StrIfTruthy(appt, "created"),
           modified_at          |-> StrIfTruthy(appt, "modified"),
           parent_appointment_id |->
               IF Truthy(Get(appt, "parent_appointment"))
               THEN Str(Get(Get(appt, "parent_appointment"), "id")) ELSE Null,
           appointment_rescheduled_from_id |->
               IF Truthy(Get(appt, "appointment_rescheduled_from"))
               THEN Str(Get(Get(appt, "appointment_rescheduled_from"), "id")) ELSE Null,
           external_identifiers |-> ExternalIdentifiers(appt),
           metadata             |-> Metadata(appt)])

\* Mutant of WebhookPayload: a missing modification time defaults to the current time.
WebhookPayloadModifiedNow(ev, appt, now) ==
    LET provider_data == ProviderData(appt)
        data == AppointmentData(ev, appt)
    IN  D([event_type |-> Str(Get(ev, "type")),
           timestamp  |-> NowIso(now),
           source     |-> S("canvas_plugin"),
           appointment |-> D([data.v EXCEPT !.modified_at = Or(@, NowIso(now))]),
           patient     |-> PatientData(appt, Today(now)),
           provider    |-> provider_data,
           schedule_user_data |-> ScheduleUserData(appt, provider_data),
           context     |-> Get(ev, "context")])

\* webhook_payload
WebhookPayload(ev, appt, now) ==
    LET provider_data == ProviderData(appt)
    IN  D([event_type |-> Str(Get(ev, "type")),
           timestamp  |-> NowIso(now),
           source     |-> S("canvas_plugin"),
           filtering  |-> D([note_type_filter |-> S("TEST-OneRoomHealth"),
                             detection_method |->
                                 S("appointment_type_or_metadata_or_external_ids"),
                             note_type_id     |-> Get(appt, "note_type_id"),
                             note_id          |-> NoteId(appt),
                             appointment_type |-> D(AppointmentType(appt))]),
           appointment |-> AppointmentData(ev, appt),
           patient     |-> PatientData(appt, Today(now)),
           provider    |-> provider_data,
           schedule_user_data |-> ScheduleUserData(appt, provider_data),
           context     |-> Get(ev, "context")])

\* json.dumps(x): the JSON text of x.
JsonDumps(x) == [t |-> "text", json |-> x]

\* The list compute() returns at its end: one LOG effect.
NarrativeString ==
    "OneRoom Health: TEST-OneRoomHealth appointment event processed and sent to backend."

\* Mutant of AckEffects: the acknowledgement loses the note identifier.
AckEffectsWithoutNote(ev) ==
    <<[type |-> "LOG",
       payload |-> JsonDumps(D([note |-> D([uuid |-> Null]),
                                data |-> D([narrative |-> S(NarrativeString)])]))]>>

AckEffects(ev) ==
    LET payload ==
            D([note |-> D([uuid |-> Get(GetDefault(Get(ev, "context"), "note", EmptyDict),
                                        "uuid")]),
               data |-> D([narrative |-> S(NarrativeString)])])
    IN  <<[type |-> "LOG", payload |-> JsonDumps(payload)]>>

(***************************************************************************)
(* _build_room_event_input: the RoomEvent record.                          *)
(***************************************************************************)
\* Mutant of RoomId: the appointment id is preferred to the configured room id.
RoomIdAppointmentFirst(configured_room_id, appointment_id, location) ==
    Or(appointment_id, Or(configured_room_id, Or(location, S("unknown-room"))))

\* room_id = configured_room_id or appointment_id or (location or 'unknown-room')
RoomId(configured_room_id, appointment_id, location) ==
    Or(configured_room_id, Or(appointment_id, Or(location, S("unknown-room"))))

\* user_id = provider_id or patient_id or (first_participant_id or 'unknown-user')
UserId(provider_id, patient_id, first_participant_id) ==
    Or(provider_id, Or(patient_id, Or(first_participant_id, S("unknown-user"))))

\* Mutant of CombinedEventId: whichever of the two is non-empty when only one is.
CombinedEventIdWhichever(room_id, event_id) ==
    IF Truthy(room_id) /\ Truthy(event_id)
    THEN S(Str(room_id).v \o "_" \o Str(event_id).v)
    ELSE Str(Or(event_id, Or(room_id, S(""))))

\* combined_event_id
CombinedEventId(room_id, event_id) ==
    IF Truthy(room_id) /\ Truthy(event_id)
    THEN S(Str(room_id).v \o "_" \o Str(event_id).v)
    ELSE Str(Or(event_id, S("")))

\* The Id of the first schedule user that has one, as text; None when there is none.
FirstParticipantId(sched) ==
    LET HasId(p) == Truthy(Or(Get(p, "Id"), Get(p, "id")))
        i == FirstIndex([j \in 1..Len(sched.v) |-> HasId(sched.v[j])])
    IN  IF i = 0 THEN Null ELSE Str(Or(Get(sched.v[i], "Id"), Get(sched.v[i], "id")))

\* sch_user_list
SchUserList(sched) ==
    L([i \in 1..Len(sched.v) |->
        LET p == sched.v[i]
        IN  D([id    |-> Str(Or(Or(Get(p, "Id"), Get(p, "id")), S(""))),
               name  |-> Or(Get(p, "name"), S("")),
               role  |-> Or(Get(p, "role"), S("")),
               email |-> Or(Get(p, "email"), S(""))])])

\* Mutant of StripNone: nothing is removed.
StripNoneKeepsAll(d) == d

\* {k: v for k, v in event_input.items() if v is not None}
StripNone(d) == D([k \in {k \in DOMAIN d.v : d.v[k] # Null} |-> d.v[k]])

\* The type marker of a normally built record, and of the fallback record.
EventType == S("event")
FallbackType == S("EVENT")

\* The record the except branch returns.
FallbackRecord(payload, secs) ==
    D([roomId  |-> Or(Get(secs, "ONEROOM_ROOM_ID"),
                      GetDefault(GetDefault(payload, "appointment", EmptyDict), "id",
                                 S("unknown-room"))),
       eventId |-> GetDefault(GetDefault(payload, "appointment", EmptyDict), "id",
                              S("unknown-event")),
       userId  |-> Or(Get(GetDefault(payload, "provider", EmptyDict), "id"),
                      S("unknown-user")),
       type    |-> FallbackType])

\* The record of the try branch.
EventInput(payload, secs) ==
    LET appt     == GetDefault(payload, "appointment", EmptyDict)
        provider == GetDefault(payload, "provider", EmptyDict)
        patient  == GetDefault(payload, "patient", EmptyDict)
        sched    == GetDefault(payload, "schedule_user_data", L(<<>>))
        appointment_id == Str(Or(Get(appt, "id"), S("")))
        provider_id    == Str(Or(Get(provider, "id"), S("")))
        patient_id     == Str(Or(Get(patient, "id"), S("")))
        room_id  == RoomId(Get(secs, "ONEROOM_ROOM_ID"), appointment_id,
                           Get(appt, "location"))
        event_id == appointment_id
        user_id  == UserId(provider_id, patient_id, FirstParticipantId(sched))
        appt_type == Or(Get(appt, "appointment_type"), EmptyDict)
    IN  D([id          |-> Str(CombinedEventId(room_id, event_id)),
           roomId      |-> Str(room_id),
           eventId     |-> Str(event_id),
           userId      |-> Str(user_id),
           type        |-> EventType,
           timestamp   |-> Get(payload, "timestamp"),
           startTime   |-> Get(appt, "start_time"),
           endTime     |-> Get(appt, "end_time"),
           eventStatus |-> Get(appt, "status"),
           eventName   |-> Or(Get(appt, "description"), Or(Get(appt_type, "display"), S(""))),
           schUserList |-> SchUserList(sched),
           appointment |-> Get(payload, "appointment"),
           patient     |-> Get(payload, "patient"),
           provider    |-> Get(payload, "provider"),
           appointmentId   |-> appointment_id,
           appointmentDbId |-> Get(appt, "dbid"),
           durationMinutes |-> Get(appt, "duration_minutes"),
           comment     |-> Get(appt, "comment"),
           noteId      |-> Get(appt, "note_id"),
           noteTypeId  |-> Get(appt, "note_type_id"),
           appointmentTypeCode    |-> Get(appt_type, "code"),
           appointmentTypeDisplay |-> Get(appt_type, "display"),
           appointmentTypeSystem  |-> Get(appt_type, "system"),
           location    |-> Get(appt, "location"),
           meetingLink |-> Get(appt, "meeting_link"),
           telehealthInstructionsSent |-> Get(appt, "telehealth_instructions_sent"),
           enteredInError |-> Get(appt, "entered_in_error"),
           description |-> Get(appt, "description"),
           createdAt   |-> Get(appt, "created_at"),
           modifiedAt  |-> Get(appt, "modified_at"),
           parentAppointmentId |-> StrIfTruthy(appt, "parent_appointment_id"),
           rescheduledFromAppointmentId |->
               StrIfTruthy(appt, "appointment_rescheduled_from_id"),
           externalIdentifiers |-> Get(appt, "external_identifiers"),
           metadata    |-> Get(appt, "metadata")])

\* Protocol._build_room_event_input; `fault` is an exception raised in the try branch.
BuildRoomEventInput(payload, secs, fault) ==
    IF fault THEN FallbackRecord(payload, secs) ELSE StripNone(EventInput(payload, secs))

(***************************************************************************)
(* _send_webhook: the request and the retry loop.                          *)
(***************************************************************************)
\* Protocol._compute_signature: the hex digest of HMAC-SHA256 of payload under secret.
ComputeSignature(secret, payload) ==
    [t |-> "hexdigest", alg |-> "hmac-sha256", key |-> secret.v, msg |-> payload]

\* Mutant of Signature: the record is signed, not the body that is sent.
SignatureOfRecord(secret, body_str) ==
    IF Truthy(secret) THEN ComputeSignature(secret, JsonDumps(body_str.json.v[1])) ELSE Null

\* signature = self._compute_signature(secret, body_str) if secret else None
Signature(secret, body_str) ==
    IF Truthy(secret) THEN ComputeSignature(secret, body_str) ELSE Null

\* The headers of the POST.
Headers(signature, api_key) ==
    LET keys == {"Content-Type", "User-Agent"}
                \cup (IF Truthy(signature) THEN {"x-canvas-signature"} ELSE {})
                \cup (IF Truthy(api_key) THEN {"Authorization"} ELSE {})
    IN  D([k \in keys |->
            CASE k = "Content-Type"       -> S("application/json")
              [] k = "User-Agent"         -> S("OneRoom-Canvas-Plugin/1.0")
              [] k = "x-canvas-signature" -> signature
              [] k = "Authorization"      -> S("Bearer " \o api_key.v)])

\* The arguments of requests.post, as _send_webhook prepares them before its loop.
PreparedRequest(payload, secs, fault) ==
    LET webhook_url == Or(Get(secs, "WEBHOOK_URL"),
                          GetDefault(secs, "ONEROOM_WEBHOOK_URL",
                                     S("https://your-backend-url.com/webhook/canvas")))
        api_key     == GetDefault(secs, "ONEROOM_API_KEY", S(""))
        secret      == GetDefault(secs, "CANVAS_WEBHOOK_SECRET", S(""))
        event_input == BuildRoomEventInput(payload, secs, fault)
        body_str    == JsonDumps(L(<<event_input>>))
    IN  [url     |-> webhook_url,
         headers |-> Headers(Signature(secret, body_str), api_key),
         data    |-> body_str,
         timeout |-> 30]

\* The attempt budget of the loop (`while attempts < 1`) and the first backoff delay.
MaxAttempts == 1
InitialBackoff == 2

\* Mutant of LoopContinues: the loop runs once more than the budget.
LoopContinuesOnceMore(n) == n <= MaxAttempts

\* The loop condition `while attempts < 1`.
LoopContinues(n) == n < MaxAttempts

\* Mutant of OnResponse: a transport-level exception is not caught.
OnResponseRaising(outcome) ==
    IF outcome = "200" THEN "return" ELSE IF outcome = "exception" THEN "raise" ELSE "retry"

\* Mutant of OnResponse: a failed attempt leaves the call at once, without the
\* backoff.
OnResponseLeaving(outcome) == "return"

\* What the loop body does with the outcome of requests.post: a status code, or
\* "exception" for a transport-level exception. "return" leaves _send_webhook,
\* "retry" logs the failure and goes on to the backoff, "raise" would propagate.
OnResponse(outcome) ==
    IF outcome = "200" THEN "return" ELSE "retry"

(***************************************************************************)
(* The inputs: events, appointments and secrets the object is built with.  *)
(***************************************************************************)
RawPatients ==
    {Null,
     D([id |-> S("p1"), dbid |-> N(11), first_name |-> S("Pat"), last_name |-> Null,
        date_of_birth |-> Date(1990, 6, 15), sex |-> Null,
        created |-> Null, modified |-> Null]),
     D([id |-> S("p1"), dbid |-> N(11), first_name |-> S("Pat"), last_name |-> Null,
        date_of_birth |-> Null, sex |-> S("F"),
        created |-> Null, modified |-> Null])}

RawProviders ==
    {Null,
     D([id |-> S("d1"), dbid |-> N(3), first_name |-> S("Doc"), last_name |-> S("Who"),
        created |-> Null, modified |-> Null])}

RawLocations == {Null, S("Room 4")}

\* The appointment appt with the attributes of `fields` set to the values given.
With(appt, fields) ==
    D([k \in DOMAIN appt.v \cup DOMAIN fields |->
        IF k \in DOMAIN fields THEN fields[k] ELSE appt.v[k]])

\* An appointment with none of its optional attributes set.
SparseAppointment(location, patient, provider) ==
    D([id |-> S("a1"), dbid |-> Null, start_time |-> Null, end_time |-> Null,
       duration_minutes |-> Null, status |-> Null, comment |-> Null, note_id |-> Null,
       note_type_id |-> Null, appointment_type |-> Null, location |-> location,
       meeting_link |-> Null, telehealth_instructions_sent |-> Null,
       entered_in_error |-> Null, description |-> Null, created |-> Null,
       modified |-> Null, parent_appointment |-> Null,
       appointment_rescheduled_from |-> Null, external_identifiers |-> Null,
       metadata |-> Null, patient |-> patient, provider |-> provider,
       participants |-> Null])

\* An appointment with its optional attributes set.
FullAppointment(location, patient, provider) ==
    D([id |-> S("a1"), dbid |-> N(7),
       start_time |-> DateTime(2024, 1, 1, 10, 0, 0), end_time |-> Null,
       duration_minutes |-> N(30), status |-> S("booked"), comment |-> S("bring forms"),
       note_id |-> Null,
       extension |-> L(<<D([url |-> S(NoteIdUrl), valueId |-> S("n9")])>>),
       note_type_id |-> N(82),
       appointment_type |->
           D([coding |-> L(<<D([code |-> S("TEST-ORH"), display |-> S("TEST-OneRoomHealth"),
                                system |-> Null])>>)]),
       location |-> location,
       meeting_link |-> S("https://meet.example/1"),
       telehealth_instructions_sent |-> B(FALSE),
       entered_in_error |-> Null, description |-> S("Follow-up"),
       created |-> DateTime(2024, 1, 31, 23, 45, 0), modified |-> Null,
       parent_appointment |-> Null,
       appointment_rescheduled_from |-> D([id |-> S("a0")]),
       external_identifiers |->
           L(<<D([id |-> N(1), system |-> S("ehr"), value |-> S("x-1"), use |-> Null,
                  identifier_type |-> Null, issued_date |-> Null,
                  expiration_date |-> Null])>>),
       metadata |-> Null, patient |-> patient, provider |-> provider,
       participants |->
           L(<<D([actor |-> D([reference |-> S("Practitioner/d1"),
                               type |-> S("Practitioner")])]),
               D([actor |-> D([reference |-> S("Patient/p1"), type |-> Null])])>>)])

\* An appointment with a start time and none of its other optional attributes set.
StartedAppointment(location, patient, provider) ==
    With(SparseAppointment(location, patient, provider),
         [start_time |-> DateTime(2024, 1, 1, 10, 0, 0)])

\* The appointments that are also tried through the query, with no instance on the target.
QueriedAppointments ==
    {SparseAppointment(Null, Null, Null),
     FullAppointment(S("Room 4"), Null, CHOOSE d \in RawProviders : d # Null)}

\* start_time, end_time and duration_minutes of the appointments that exercise the
\* time normalization: starts whose end crosses the hour, the day, the month, the
\* leap day and the year, a start given as text, an end that is given, and texts
\* that datetime.fromisoformat rejects.
TimeSamples ==
    {<<DateTime(2024, 1, 1, 10, 45, 0), Null, N(30)>>,
     <<DateTime(2024, 1, 31, 23, 45, 0), Null, N(30)>>,
     <<DateTime(2024, 2, 28, 23, 30, 0), Null, N(45)>>,
     <<DateTime(2024, 12, 31, 23, 59, 0), Null, N(1)>>,
     <<DateTime(2024, 1, 1, 10, 0, 0), Null, N(1500)>>,
     <<S("2024-01-01T10:00:00Z"), Null, N(30)>>,
     <<DateTime(2024, 1, 1, 10, 0, 0), DateTime(2024, 1, 1, 10, 45, 0), N(30)>>,
     <<S("tomorrow 10am"), Null, N(30)>>,
     <<DateTime(2024, 1, 1, 10, 0, 0), S("noon"), Null>>,
     <<Null, DateTime(2024, 1, 1, 10, 45, 0), N(30)>>}

TimedAppointments ==
    {With(SparseAppointment(Null, Null, Null),
          [start_time |-> t[1], end_time |-> t[2], duration_minutes |-> t[3]]) :
        t \in TimeSamples}

\* patient.date_of_birth of the appointments that exercise _calculate_age: birthdays
\* before, on and after the current day, in an earlier and in a later month, a text
\* in the form %Y-%m-%d and a text strptime rejects.
BirthSamples ==
    {Date(1990, 6, 14), Date(1990, 6, 16), Date(1990, 1, 20), Date(1990, 7, 1),
     Date(2000, 12, 31), S("1990-06-15"), S("15/06/1990")}

BornAppointments ==
    {With(SparseAppointment(Null, Null, Null),
          [start_time |-> DateTime(2024, 1, 1, 10, 0, 0),
           patient |-> D([id |-> S("p1"), dbid |-> N(11), first_name |-> S("Pat"),
                          last_name |-> Null, date_of_birth |-> b, sex |-> Null,
                          created |-> Null, modified |-> Null])]) :
        b \in BirthSamples}

\* A coding that the match rule accepts.
TestOrhCoding ==
    D([code |-> S("TEST-ORH"), display |-> S("TEST-OneRoomHealth"), system |-> S("TEST-ORH")])

\* The type attributes of the appointments that exercise the type resolution and the
\* match rule: appointment_type with code/display/system, with a coding list, with
\* neither, with an empty coding list, absent; appointmentType with a coding list;
\* the note type 82.
TypeSamples ==
    {[appointment_type |-> D([code |-> S("visit"), display |-> S("Office Visit"),
                              system |-> Null]),
      note_type_id |-> N(5)],
     [appointment_type |-> D([code |-> S("test-orh"), display |-> Null, system |-> Null])],
     [appointment_type |-> D([code |-> Null, display |-> Null, system |-> S("test-orh")])],
     [appointment_type |-> D([code |-> Null, display |-> Null, system |-> Null,
                              coding |-> L(<<TestOrhCoding>>)])],
     [appointment_type |-> D([text |-> S("visit")]),
      appointmentType  |-> D([coding |-> L(<<TestOrhCoding>>)])],
     [appointment_type |-> D([coding |-> L(<<>>)]),
      appointmentType  |-> D([coding |-> L(<<TestOrhCoding>>)])],
     [appointmentType  |-> D([coding |-> L(<<TestOrhCoding>>)])],
     [appointmentType  |-> D([coding |-> L(<<>>)])],
     [note_type_id |-> N(82)]}

TypedAppointments ==
    {With(StartedAppointment(Null, Null, Null), t) : t \in TypeSamples}

\* Participant entries: the provider by a typed reference and by a bare id, the
\* patient without a declared type, a location, another practitioner referenced at
\* the top level of the entry, and an actor with a type and no reference.
ParticipantSamples ==
    <<D([actor |-> D([reference |-> S("Patient/p1"), type |-> Null])]),
      D([actor |-> D([reference |-> S("Practitioner/d1"), type |-> S("Practitioner")])]),
      D([actor |-> D([reference |-> S("Location/r4"), type |-> S("Location")])]),
      D([actor |-> D([reference |-> S("d1"), type |-> Null])]),
      D([reference |-> S("Practitioner/d2")]),
      D([actor |-> D([type |-> S("Device")])])>>

\* Appointments with these participants, with and without a provider, under either
\* name of the attribute.
AttendedAppointments ==
    {With(StartedAppointment(Null, Null, d), [participants |-> L(ParticipantSamples)]) :
        d \in RawProviders}
    \cup {With(StartedAppointment(Null, Null, CHOOSE d \in RawProviders : d # Null),
               [participant |-> L(SubSeq(ParticipantSamples, 2, 4))])}

\* The appointments that exercise one part of the extraction each; they arrive as the
\* instance of an event with a target id and a note.
SampledAppointments ==
    TimedAppointments \cup BornAppointments \cup TypedAppointments
    \cup AttendedAppointments

RawAppointments ==
    {SparseAppointment(l, p, d) : l \in RawLocations, p \in RawPatients, d \in RawProviders}
    \cup {FullAppointment(l, p, d) : l \in RawLocations, p \in RawPatients, d \in RawProviders}
    \cup {StartedAppointment(l, p, d) : l \in RawLocations, p \in RawPatients, d \in RawProviders}
    \cup SampledAppointments

\* The event: its type, its target (id and resolved instance) and its context.
Event(id, instance, note) ==
    D([type    |-> S("APPOINTMENT_CREATED"),
       target  |-> D([id |-> id, instance |-> instance]),
       context |-> D([note |-> D([uuid |-> note])])])

TargetIds == {Null, S("a1")}
NoteUuids == {Null, S("n1")}

\* self.secrets: the room id and the API key configured or not, the signing secret
\* not configured, configured empty or configured.
SecretsOf(room, secret, key) ==
    D([k \in (IF room THEN {"ONEROOM_ROOM_ID"} ELSE {})
             \cup (IF secret # Null THEN {"CANVAS_WEBHOOK_SECRET"} ELSE {})
             \cup (IF key THEN {"ONEROOM_API_KEY"} ELSE {})
             \cup {"ONEROOM_WEBHOOK_URL"} |->
        CASE k = "ONEROOM_ROOM_ID"       -> S("room-7")
          [] k = "CANVAS_WEBHOOK_SECRET" -> secret
          [] k = "ONEROOM_API_KEY"       -> S("key")
          [] k = "ONEROOM_WEBHOOK_URL"   -> S("https://backend.example/webhook")])

SecretsSet ==
    {SecretsOf(r, s, k) : r \in BOOLEAN, s \in {Null, S(""), S("s")}, k \in BOOLEAN}

\* The faults of one compute() call: none, an exception while extracting (outside
\* every inner try), or an exception inside _build_room_event_input's try.
FaultPlans == {{}, {"extraction"}, {"assembly"}}

\* The outcomes of requests.post: a status code or a transport-level exception.
Outcomes == {"200", "500", "exception"}

(***************************************************************************)
(* The state machine.                                                      *)
(***************************************************************************)
Init ==
    /\ \E id \in TargetIds, note \in NoteUuids, a \in RawAppointments \cup {Null},
          how \in {"instance", "query"} :
          /\ how = "query" => id # Null /\ a \in QueriedAppointments
          /\ a \in SampledAppointments => id # Null /\ note # Null
          /\ event = Event(id, IF how = "instance" THEN a ELSE Null, note)
          /\ appointments = IF how = "query" THEN L(<<a>>) ELSE L(<<>>)
    /\ secrets \in SecretsSet
    /\ faults \in FaultPlans
    /\ faults # {} => ResolveAppointment(event, appointments) # Null
    /\ clock = 0
    /\ pc = "idle"
    /\ runs = 0
    /\ effects = <<>>
    /\ request = Null
    /\ posts = <<>>
    /\ sleeps = <<>>
    /\ responses = <<>>
    /\ attempts = 0
    /\ backoff = 0
    /\ sendResult = "none"
    /\ prevPosts = <<>>

\* compute() is called: lines 37-382 up to the loop of _send_webhook, or to the return
\* when the appointment is not found or an exception reaches the outer except: an
\* accessor that raises outside every inner try, or the unbound `datetime` of line 361.
Compute ==
    /\ pc \in {"idle", "returned"}
    /\ runs < MaxRuns
    /\ runs' = runs + 1
    /\ prevPosts' = posts
    /\ posts' = <<>>
    /\ sleeps' = <<>>
    /\ responses' = <<>>
    /\ LET appointment == ResolveAppointment(event, appointments)
       IN  IF ~Truthy(appointment)
           THEN /\ effects' = <<>>
                /\ pc' = "returned"
                /\ sendResult' = "none"
                /\ UNCHANGED <<request, attempts, backoff>>
           ELSE IF ~IsTestOrhAppointment(MatchRule(appointment))
           THEN /\ effects' = <<>>
                /\ pc' = "returned"
                /\ sendResult' = "none"
                /\ UNCHANGED <<request, attempts, backoff>>
           ELSE IF "extraction" \in faults \/ ~DatetimeImported(appointment)
           THEN /\ effects' = AckEffects(event)
                /\ pc' = "returned"
                /\ sendResult' = "none"
                /\ UNCHANGED <<request, attempts, backoff>>
           ELSE /\ request' = PreparedRequest(WebhookPayload(event, appointment, clock),
                                              secrets, "assembly" \in faults)
                /\ attempts' = 0
                /\ backoff' = InitialBackoff
                /\ sendResult' = "none"
                /\ pc' = "loop"
                /\ UNCHANGED effects
    /\ UNCHANGED <<event, secrets, clock, appointments, faults>>

\* The head of `while attempts < 1`: issue the next POST, or leave the loop, return
\* from _send_webhook and return the acknowledgement from compute().
LoopHead ==
    /\ pc = "loop"
    /\ IF LoopContinues(attempts)
       THEN /\ attempts' = attempts + 1
            /\ posts' = Append(posts, request)
            /\ pc' = "posting"
            /\ UNCHANGED <<effects, sendResult>>
       ELSE /\ sendResult' = "returned"
            /\ effects' = AckEffects(event)
            /\ pc' = "returned"
            /\ UNCHANGED <<attempts, posts>>
    /\ UNCHANGED <<event, secrets, clock, runs, request, sleeps, responses, backoff,
                   prevPosts, appointments, faults>>

\* requests.post ends with `outcome`.
Respond(outcome) ==
    /\ pc = "posting"
    /\ responses' = Append(responses, outcome)
    /\ LET next == OnResponse(outcome)
       IN  /\ pc' = IF next = "retry" THEN "sleeping" ELSE "returned"
           /\ sendResult' = CASE next = "return" -> "returned"
                              [] next = "retry"  -> sendResult
                              [] OTHER           -> "raised"
           /\ effects' = IF next = "retry" THEN effects ELSE AckEffects(event)
    /\ UNCHANGED <<event, secrets, clock, runs, request, posts, sleeps, attempts, backoff,
                   prevPosts, appointments, faults>>

\* time.sleep(backoff); backoff *= 2
Sleep ==
    /\ pc = "sleeping"
    /\ sleeps' = Append(sleeps, backoff)
    /\ backoff' = backoff * 2
    /\ pc' = "loop"
    /\ UNCHANGED <<event, secrets, clock, runs, effects, request, posts, responses,
                   attempts, sendResult, prevPosts, appointments, faults>>

\* A day passes between two calls of compute().
Tick ==
    /\ pc \in {"idle", "returned"}
    /\ clock < MaxClock
    /\ clock' = clock + 1
    /\ UNCHANGED <<event, secrets, pc, runs, effects, request, posts, sleeps, responses,
                   attempts, backoff, sendResult, prevPosts, appointments, faults>>

Next ==
    \/ Compute
    \/ LoopHead
    \/ \E outcome \in Outcomes : Respond(outcome)
    \/ Sleep
    \/ Tick

Spec == Init /\ [][Next]_vars

(***************************************************************************)
(* Properties.                                                             *)
(***************************************************************************)
\* The RoomEvent record in the body of request r.
RoomEventOf(r) == r.data.json.v[1]

\* The appointment of the event can be resolved: the target carries an instance, or
\* the query returns a row.
Resolvable ==
    event.v.target.v.instance # Null \/ Len(appointments.v) > 0

\* effs is exactly one LOG effect with the fixed narrative and the context's note id.
IsAcknowledgement(effs) ==
    /\ Len(effs) = 1
    /\ effs[1].type = "LOG"
    /\ effs[1].payload.json.v.data.v.narrative =
           S("OneRoom Health: TEST-OneRoomHealth appointment event processed and sent to backend.")
    /\ effs[1].payload.json.v.note.v.uuid = event.v.context.v.note.v.uuid

\* C1 as stated: every finished compute() call returned exactly one acknowledgement
\* effect with the fixed narrative and the note identifier of the event context,
\* also when the appointment cannot be resolved.
C1_AckAlways ==
    pc = "returned" => IsAcknowledgement(effects)

\* C1 amended: a finished compute() call whose appointment is resolved returned
\* exactly one acknowledgement effect with the fixed narrative and the note
\* identifier, under every fault and webhook outcome; a call whose appointment
\* cannot be resolved returned the empty list.
C1_AckWhenResolved ==
    pc = "returned" =>
        IF Resolvable THEN IsAcknowledgement(effects) ELSE effects = <<>>

\* A call that prepared the fallback record, got a transport exception and still
\* returned one effect.
C1_Witness ==
    /\ pc = "returned"
    /\ "assembly" \in faults
    /\ responses = <<"exception">>
    /\ Len(effects) = 1
    /\ event.v.context.v.note.v.uuid = S("n1")

\* C2: a _send_webhook call that ended after the endpoint answered HTTP 500 to every
\* POST issued 3 POSTs, waited strictly increasing delays between them and returned
\* normally.
C2_ThreeAttemptsOnFailure ==
    (/\ pc = "returned"
     /\ responses # <<>>
     /\ \A i \in 1..Len(responses) : responses[i] = "500")
    => /\ Len(posts) = 3
       /\ \A i \in 1..(Len(sleeps) - 1) : sleeps[i] < sleeps[i + 1]
       /\ sendResult = "returned"

C4_SendNeverRaises ==
    /\ sendResult # "raised"
    /\ (pc = "returned" /\ responses # <<>>) => sendResult = "returned"

\* _send_webhook has returned normally after a transport-level exception.
C4_Witness ==
    /\ pc = "returned"
    /\ responses = <<"exception">>
    /\ sendResult = "returned"

\* The appointment compute() resolved (when Resolvable).
TheAppointment ==
    IF event.v.target.v.instance # Null THEN event.v.target.v.instance
    ELSE appointments.v[1]

\* The configured room id, Null when none is configured.
ConfiguredRoom ==
    IF "ONEROOM_ROOM_ID" \in DOMAIN secrets.v THEN secrets.v["ONEROOM_ROOM_ID"] ELSE Null

\* A non-empty signing secret is configured.
SecretConfigured ==
    /\ "CANVAS_WEBHOOK_SECRET" \in DOMAIN secrets.v
    /\ secrets.v["CANVAS_WEBHOOK_SECRET"].v # ""

\* Some key of a dict inside x, at any depth, has the value None.
RECURSIVE HasNull(_)
HasNull(x) ==
    CASE x.t = "dict" -> \E k \in DOMAIN x.v : x.v[k] = Null \/ HasNull(x.v[k])
      [] x.t = "list" -> \E i \in 1..Len(x.v) : HasNull(x.v[i])
      [] OTHER        -> FALSE

C7_RoomIdPrecedence ==
    \A i \in 1..Len(posts) :
        "assembly" \notin faults =>
            RoomEventOf(posts[i]).v.roomId =
                IF ConfiguredRoom # Null THEN ConfiguredRoom
                ELSE IF event.v.target.v.id # Null THEN event.v.target.v.id
                ELSE IF TheAppointment.v.location # Null THEN TheAppointment.v.location
                ELSE S("unknown-room")

\* A POST with no configured room id and no appointment id, whose roomId is the
\* location.
C7_Witness ==
    /\ Len(posts) = 1
    /\ "assembly" \notin faults
    /\ ConfiguredRoom = Null
    /\ event.v.target.v.id = Null
    /\ TheAppointment.v.location = S("Room 4")
    /\ RoomEventOf(posts[1]).v.roomId = S("Room 4")

\* C8 as stated: id is "{roomId}_{eventId}" when both are non-empty, whichever is
\* non-empty when only one is, and empty only when both are empty.
C8_CombinedIdWhichever ==
    \A i \in 1..Len(posts) :
        "assembly" \notin faults =>
            LET room == RoomEventOf(posts[i]).v.roomId.v
                evt  == RoomEventOf(posts[i]).v.eventId.v
                id   == RoomEventOf(posts[i]).v.id.v
            IN  /\ (room # "" /\ evt # "") => id = room \o "_" \o evt
                /\ (room # "" /\ evt = "") => id = room
                /\ (room = "" /\ evt # "") => id = evt
                /\ id = "" <=> (room = "" /\ evt = "")

\* C8 amended: roomId is never empty; id is "{roomId}_{eventId}" when eventId is
\* non-empty and the empty string when eventId is empty.
C8_CombinedIdFollowsEventId ==
    \A i \in 1..Len(posts) :
        "assembly" \notin faults =>
            LET room == RoomEventOf(posts[i]).v.roomId.v
                evt  == RoomEventOf(posts[i]).v.eventId.v
                id   == RoomEventOf(posts[i]).v.id.v
            IN  /\ room # ""
                /\ evt # "" => id = room \o "_" \o evt
                /\ evt = "" => id = ""

\* A POST whose eventId is empty: its id is empty though its roomId is not.
C8_Witness ==
    /\ Len(posts) = 1
    /\ "assembly" \notin faults
    /\ RoomEventOf(posts[1]).v.eventId = S("")
    /\ RoomEventOf(posts[1]).v.roomId = S("Room 4")
    /\ RoomEventOf(posts[1]).v.id = S("")

\* C9 as stated: two compute() calls on the same event and configuration POST
\* identical bodies.
C9_IdenticalBodies ==
    (Len(prevPosts) = 1 /\ Len(posts) = 1) => prevPosts[1].data = posts[1].data

\* Dicts a and b have the same keys and agree on every key outside ks.
EqualBut(a, b, ks) ==
    /\ DOMAIN a.v = DOMAIN b.v
    /\ \A k \in DOMAIN a.v \ ks : a.v[k] = b.v[k]

\* C9 amended: the bodies of two compute() calls on the same event and configuration
\* are identical except for the timestamp and the age of the nested patient record,
\* which follow the clock; with equal timestamps the bodies are identical.
C9_IdenticalButClock ==
    (Len(prevPosts) = 1 /\ Len(posts) = 1) =>
        LET a == RoomEventOf(prevPosts[1])
            b == RoomEventOf(posts[1])
        IN  /\ EqualBut(a, b, {"timestamp", "patient"})
            /\ "patient" \in DOMAIN a.v => EqualBut(a.v.patient, b.v.patient, {"age"})
            /\ ("timestamp" \in DOMAIN a.v /\ a.v.timestamp = b.v.timestamp) => a = b

\* Two calls a day apart: the bodies differ in the timestamp and in the patient's age.
C9_Witness ==
    /\ Len(prevPosts) = 1
    /\ Len(posts) = 1
    /\ "assembly" \notin faults
    /\ RoomEventOf(prevPosts[1]).v.timestamp # RoomEventOf(posts[1]).v.timestamp
    /\ TheAppointment.v.patient # Null
    /\ RoomEventOf(prevPosts[1]).v.patient.v.age = N(33)
    /\ RoomEventOf(posts[1]).v.patient.v.age = N(34)

\* C10: when assembling fails, the record that is POSTed has exactly the keys roomId,
\* eventId, userId and type, its type is the marker of a normally built record
\* ("event"), and a POST is issued for it.
C10_FallbackRecord ==
    "assembly" \in faults =>
        /\ \A i \in 1..Len(posts) :
               /\ DOMAIN RoomEventOf(posts[i]).v = {"roomId", "eventId", "userId", "type"}
               /\ RoomEventOf(posts[i]).v.type = S("event")
        /\ pc = "returned" => Len(posts) = 1

\* The part of C10 that holds: the keys of the fallback record, and the POST.
C10_FallbackKeysAndPost ==
    "assembly" \in faults =>
        /\ \A i \in 1..Len(posts) :
               DOMAIN RoomEventOf(posts[i]).v = {"roomId", "eventId", "userId", "type"}
        /\ pc = "returned" => Len(posts) = 1

\* The texts of the form YYYY-MM-DDTHH:MM:SS.000Z over the dates and times of day
\* the appointments of the model can produce.
NormalizedTexts ==
    {S(ToString(y) \o "-" \o Pad2(mo) \o "-" \o Pad2(d) \o "T" \o Pad2(h) \o ":"
       \o Pad2(mi) \o ":00.000Z") :
        y \in 2024..2025, mo \in 1..12, d \in 1..31, h \in {0, 10, 11, 23},
        mi \in {0, 15, 30, 45, 59}}

\* C11: every startTime and endTime of a POSTed record is absent or has the form
\* YYYY-MM-DDTHH:MM:SS.000Z; a time text that cannot be parsed is left out and never
\* passed downstream as it was read.
C11_TimesNormalized ==
    (Len(posts) = 1 /\ "assembly" \notin faults) =>
        \A k \in {"startTime", "endTime"} :
            k \in DOMAIN RoomEventOf(posts[1]).v =>
                RoomEventOf(posts[1]).v[k] \in NormalizedTexts

\* The days before each month of a leap and of a common year.
DaysBefore(y) ==
    IF y % 4 = 0 THEN <<0, 31, 60, 91, 121, 152, 182, 213, 244, 274, 305, 335, 366>>
    ELSE <<0, 31, 59, 90, 120, 151, 181, 212, 243, 273, 304, 334, 365>>

\* The minutes from 2024-01-01T00:00 to dt, and the datetime that many minutes after
\* it, for the years 2024 and 2025.
MinuteOrdinal(dt) ==
    (((IF dt.y = 2025 THEN 366 ELSE 0) + DaysBefore(dt.y)[dt.mo] + dt.d - 1) * 24 + dt.h) * 60
    + dt.mi
OfMinuteOrdinal(m) ==
    LET days == m \div 1440
        y    == IF days >= 366 THEN 2025 ELSE 2024
        doy  == IF days >= 366 THEN days - 366 ELSE days
        mo   == CHOOSE k \in 1..12 : DaysBefore(y)[k] <= doy /\ doy < DaysBefore(y)[k + 1]
    IN  DateTime(y, mo, doy - DaysBefore(y)[mo] + 1, (m % 1440) \div 60, m % 60, 0)

\* The start of the appointment as a datetime, Null when it is absent or a text that
\* cannot be parsed.
ParsedStart ==
    LET start == TheAppointment.v.start_time
    IN  IF start.t = "datetime" THEN start
        ELSE IF start = S("2024-01-01T10:00:00Z") THEN DateTime(2024, 1, 1, 10, 0, 0)
        ELSE Null

\* C12: when the appointment has no end time, a start that parses and a duration of
\* d >= 1 minutes, the endTime of the POSTed record is the start plus d minutes in the
\* form YYYY-MM-DDTHH:MM:SS.000Z, also across the hour, the day, the month and the
\* year; 2024-01-01T10:00:00Z with d = 30 gives 2024-01-01T10:30:00.000Z.
C12_EndFromDuration ==
    (/\ Len(posts) = 1
     /\ "assembly" \notin faults
     /\ TheAppointment.v.end_time = Null
     /\ ParsedStart # Null
     /\ TheAppointment.v.duration_minutes.t = "int"
     /\ TheAppointment.v.duration_minutes.v >= 1) =>
        LET d   == TheAppointment.v.duration_minutes.v
            end == OfMinuteOrdinal(MinuteOrdinal(ParsedStart) + d)
        IN  /\ RoomEventOf(posts[1]).v.endTime =
                   S(ToString(end.y) \o "-" \o Pad2(end.mo) \o "-" \o Pad2(end.d) \o "T"
                     \o Pad2(end.h) \o ":" \o Pad2(end.mi) \o ":00.000Z")
            /\ (TheAppointment.v.start_time = S("2024-01-01T10:00:00Z") /\ d = 30) =>
                   RoomEventOf(posts[1]).v.endTime = S("2024-01-01T10:30:00.000Z")

\* A start of 23:45 on 31 January with 30 minutes ends at 00:15 on 1 February.
C12_Witness ==
    /\ Len(posts) = 1
    /\ "assembly" \notin faults
    /\ TheAppointment.v.start_time = DateTime(2024, 1, 31, 23, 45, 0)
    /\ TheAppointment.v.end_time = Null
    /\ TheAppointment.v.duration_minutes = N(30)
    /\ RoomEventOf(posts[1]).v.endTime = S("2024-02-01T00:15:00.000Z")

\* The birth date of the appointment's patient as a date, Null when it is absent or a
\* text that is not in the form %Y-%m-%d.
ParsedBirth ==
    LET patient == TheAppointment.v.patient
        dob     == IF patient = Null THEN Null ELSE patient.v.date_of_birth
    IN  IF dob.t = "date" THEN dob
        ELSE IF dob = S("1990-06-15") THEN Date(1990, 6, 15)
        ELSE Null

\* The birthdays of dob that have come by `today`, the day of birth not counted.
BirthdaysBy(dob, today) ==
    {y \in (dob.y + 1)..today.y :
        \/ y < today.y
        \/ dob.mo < today.mo
        \/ (dob.mo = today.mo /\ dob.d <= today.d)}

\* C13: the age in the POSTed patient record is the current year minus the year of
\* birth, less one when the current (month, day) is strictly before the (month, day)
\* of birth; 1990-06-15 gives 33 on 2024-06-14 and 34 on 2024-06-15; a birth date
\* that cannot be parsed gives no age, and the record is still built and POSTed.
C13_Age ==
    (/\ Len(posts) = 1
     /\ "assembly" \notin faults
     /\ TheAppointment.v.patient # Null
     /\ Truthy(TheAppointment.v.patient.v.date_of_birth)) =>
        \A now \in 0..(MaxClock + 1) :
            RoomEventOf(posts[1]).v.timestamp = NowIso(now) =>
                LET age   == RoomEventOf(posts[1]).v.patient.v.age
                    today == Date(2024, 6, 14 + now)
                IN  /\ ParsedBirth # Null =>
                           age = N(Cardinality(BirthdaysBy(ParsedBirth, today)))
                    /\ ParsedBirth = Null => age = Null
                    /\ (ParsedBirth = Date(1990, 6, 15) /\ now = 0) => age = N(33)
                    /\ (ParsedBirth = Date(1990, 6, 15) /\ now = 1) => age = N(34)

\* The birth date 1990-06-15, given as text, processed on 2024-06-14 and again on
\* 2024-06-15: the ages are 33 and 34.
C13_Witness ==
    /\ Len(prevPosts) = 1
    /\ Len(posts) = 1
    /\ "assembly" \notin faults
    /\ TheAppointment.v.patient # Null
    /\ TheAppointment.v.patient.v.date_of_birth = S("1990-06-15")
    /\ RoomEventOf(prevPosts[1]).v.timestamp = S("2024-06-14T09:00:00.000000")
    /\ RoomEventOf(prevPosts[1]).v.patient.v.age = N(33)
    /\ RoomEventOf(posts[1]).v.timestamp = S("2024-06-15T09:00:00.000000")
    /\ RoomEventOf(posts[1]).v.patient.v.age = N(34)

\* C14: a fault while extracting a single field of the appointment, the patient or
\* the provider costs only that field: whatever the fault of the call, once the
\* appointment is resolved the record is built and a POST is issued for it.
C14_FaultCostsOneField ==
    (pc = "returned" /\ Resolvable) => Len(posts) = 1

\* C15 as stated: no backoff wait is executed during a delivery, neither after a 200
\* response nor after a non-200 response or a transport exception on the only attempt.
C15_NoBackoffWait ==
    sleeps = <<>>

\* C15, amended: no backoff wait follows a 200 response; after a non-200 response or
\* a transport exception on the only attempt exactly one wait, of the base delay of
\* 2 seconds, is executed before the call ends, and no POST follows it; the doubled
\* delay is never waited.
C15_OneWaitAfterFailure ==
    /\ \A i \in 1..Len(sleeps) : sleeps[i] = 2
    /\ Len(sleeps) <= 1
    /\ pc = "sleeping" => Len(responses) = 1 /\ responses[1] # "200" /\ sleeps = <<>>
    /\ (pc = "returned" /\ Len(responses) = 1) =>
           /\ responses[1] = "200" => sleeps = <<>>
           /\ responses[1] # "200" => sleeps = <<2>> /\ Len(posts) = 1

\* The only POST met a transport exception; the call waited 2 seconds and ended.
C15_Witness ==
    /\ pc = "returned"
    /\ responses = <<"exception">>
    /\ sleeps = <<2>>
    /\ Len(posts) = 1

\* C16: every event whose appointment is resolved goes on to a webhook delivery
\* attempt whatever the match rule found, also when none of its four conditions
\* (type display, type code, type system, note type 82) holds: the finished call
\* has issued a POST and returned the acknowledgement.
C16_EveryResolvedEventDelivered ==
    (pc = "returned" /\ Resolvable) =>
        /\ IsAcknowledgement(effects)
        /\ ~MatchRule(TheAppointment) => Len(posts) = 1
        /\ MatchRule(TheAppointment) => Len(posts) = 1

\* The part of C16 that holds: the gate stops no event. A resolved appointment that
\* matches none of the four conditions is acknowledged, and it is delivered whenever
\* one that matches would be: when a start or end time is present and no accessor
\* raises outside the inner try blocks.
C16_GateStopsNothing ==
    (pc = "returned" /\ Resolvable /\ ~MatchRule(TheAppointment)) =>
        /\ IsAcknowledgement(effects)
        /\ ("extraction" \notin faults /\ DatetimeImported(TheAppointment)) =>
               Len(posts) = 1

\* An appointment with a start time that matches none of the four conditions has been
\* POSTed.
C16_NoMatchDelivered ==
    /\ pc = "returned"
    /\ Resolvable
    /\ ~MatchRule(TheAppointment)
    /\ TheAppointment.v.appointment_type # Null
    /\ Len(posts) = 1

\* The type of the POSTed appointment record, and the shapes of the raw appointment:
\* (1) appointment_type with code, display or system, (2) appointment_type with a
\* non-empty coding list, (3) appointmentType with a non-empty coding list.
PostedType == RoomEventOf(posts[1]).v.appointment.v.appointment_type
NoType == D([code |-> Null, display |-> Null, system |-> Null])
TypeOf(c) ==
    D([code    |-> IF "code" \in DOMAIN c.v THEN c.v.code ELSE Null,
       display |-> IF "display" \in DOMAIN c.v THEN c.v.display ELSE Null,
       system  |-> IF "system" \in DOMAIN c.v THEN c.v.system ELSE Null])
SnakeType == TheAppointment.v.appointment_type
CamelType ==
    IF "appointmentType" \in DOMAIN TheAppointment.v
    THEN TheAppointment.v.appointmentType ELSE Null
IsShape1 == SnakeType # Null /\ DOMAIN SnakeType.v \cap {"code", "display", "system"} # {}
IsShape2 ==
    SnakeType # Null /\ "coding" \in DOMAIN SnakeType.v /\ Len(SnakeType.v.coding.v) > 0
IsShape3 ==
    CamelType # Null /\ "coding" \in DOMAIN CamelType.v /\ Len(CamelType.v.coding.v) > 0

RawParticipants ==
    IF TheAppointment.v.participants # Null THEN TheAppointment.v.participants.v
    ELSE IF "participant" \in DOMAIN TheAppointment.v THEN TheAppointment.v.participant.v
    ELSE <<>>

\* The reference of a participant entry: that of its actor, else its own; Null when
\* it has none.
ReferenceOf(p) ==
    IF "actor" \in DOMAIN p.v /\ "reference" \in DOMAIN p.v.actor.v THEN p.v.actor.v.reference
    ELSE IF "reference" \in DOMAIN p.v THEN p.v.reference
    ELSE Null

\* The declared type of the actor of a participant entry, Null when it has none.
DeclaredTypeOf(p) ==
    IF "actor" \in DOMAIN p.v /\ "type" \in DOMAIN p.v.actor.v THEN p.v.actor.v.type ELSE Null

\* The id after the last '/' of the references of the model.
IdAfterSlash ==
    [r \in {"Patient/p1", "Practitioner/d1", "Practitioner/d2", "Location/r4", "d1"} |->
        CASE r = "Patient/p1"      -> "p1"
          [] r = "Practitioner/d1" -> "d1"
          [] r = "Practitioner/d2" -> "d2"
          [] r = "Location/r4"     -> "r4"
          [] r = "d1"              -> "d1"]

\* Participant entry p refers to the resolved provider of the appointment.
RefersToProvider(p) ==
    /\ TheAppointment.v.provider # Null
    /\ ReferenceOf(p) # Null
    /\ IdAfterSlash[ReferenceOf(p).v] = TheAppointment.v.provider.v.id.v

\* C18: the schUserList of the POSTed record has one row per participant entry, in
\* order; a row has role "provider" exactly when the id after the last '/' of its
\* reference equals the id of the resolved provider, else the declared type of its
\* actor, else "participant"; the provider row carries the provider's display name,
\* every other row the empty name.
C18_ParticipantRows ==
    (Len(posts) = 1 /\ "assembly" \notin faults) =>
        LET rows == RoomEventOf(posts[1]).v.schUserList.v
        IN  /\ Len(rows) = Len(RawParticipants)
            /\ \A i \in 1..Len(RawParticipants) :
                   LET p == RawParticipants[i]
                   IN  /\ rows[i].v.id =
                              IF ReferenceOf(p) = Null THEN S("")
                              ELSE S(IdAfterSlash[ReferenceOf(p).v])
                       /\ (rows[i].v.role = S("provider")) <=> RefersToProvider(p)
                       /\ RefersToProvider(p) =>
                              rows[i].v.name =
                                  S(TheAppointment.v.provider.v.first_name.v \o " "
                                    \o TheAppointment.v.provider.v.last_name.v)
                       /\ ~RefersToProvider(p) =>
                              /\ rows[i].v.name = S("")
                              /\ rows[i].v.role =
                                     IF DeclaredTypeOf(p) # Null THEN DeclaredTypeOf(p)
                                     ELSE S("participant")

\* Six participant entries beside the provider d1: the typed reference and the bare id
\* give the provider rows, the others keep their type or are plain participants.
C18_Witness ==
    /\ Len(posts) = 1
    /\ "assembly" \notin faults
    /\ TheAppointment.v.provider # Null
    /\ Len(RawParticipants) = 6
    /\ LET rows == RoomEventOf(posts[1]).v.schUserList.v
       IN  /\ [i \in 1..6 |-> rows[i].v.role] =
                  <<S("participant"), S("provider"), S("Location"), S("provider"),
                    S("participant"), S("Device")>>
           /\ [i \in 1..6 |-> rows[i].v.name] =
                  <<S(""), S("Doc Who"), S(""), S("Doc Who"), S(""), S("")>>
           /\ [i \in 1..6 |-> rows[i].v.id] =
                  <<S("p1"), S("d1"), S("r4"), S("d1"), S("d2"), S("")>>
====
